---- MODULE Spec2Model ----
(***************************************************************************)
(* A model of the hazardous layer of orion: HKDF (hazardous/hkdf.rs),      *)
(* cSHAKE (hazardous/cshake.rs) and the utilities of core/util.rs.         *)
(*                                                                         *)
(* A caller constructs one parameter record, calls its methods any number  *)
(* of times and drops it.  Every method is one action; the bytes it        *)
(* returns, the error it raises and what it did on the way (HMAC           *)
(* invocations, sponge absorbs, clearing of locals) are state.             *)
(*                                                                         *)
(* Byte strings are sequences over 0..255.  A u64 is its eight base-256    *)
(* digits, most significant first, because TLC's integers are 32 bits.     *)
(***************************************************************************)
EXTENDS Integers, Sequences, FiniteSets, TLC

VARIABLES
    endian,     \* byte order of the build target: "little" or "big"
    pc,         \* "live" | "panic" | "dropped" (record life) ; "call" | "done" (free functions)
    made,       \* the record as the caller constructed it
    self,       \* the record's fields as they are in memory now
    calls,      \* number of method calls made on the record so far
    out,        \* the last successful byte output: [op, bytes]
    op,         \* name of the last operation called
    arg,        \* arguments of the last call, a sequence of byte strings
    ret,        \* what the last call returned: [tag, err, bytes, bool]
    trace,      \* what the last call did, in order
    prk_mem,    \* derive_key's local prk as it is when derive_key returns
    sponge,     \* the Keccak state of the last finalize call
    hist        \* the calls made so far with their results, when recorded

vars == <<endian, pc, made, self, calls, out, op, arg, ret, trace, prk_mem, sponge, hist>>

(***************************************************************************)
(* Bytes and sequences.                                                    *)
(***************************************************************************)

\* A sequence in TLC's tuple form (a function over 1..n is made a tuple once).
AsSeq(s) == s \o <<>>

Zeros(n) == AsSeq([i \in 1..n |-> 0])

IsZeroed(buf) == \A i \in 1..Len(buf) : buf[i] = 0

RECURSIVE BitXor(_, _, _)
BitXor(a, b, n) ==
    IF n = 0 THEN 0
    ELSE ((a + b) % 2) + 2 * BitXor(a \div 2, b \div 2, n - 1)

RECURSIVE BitOr(_, _, _)
BitOr(a, b, n) ==
    IF n = 0 THEN 0
    ELSE (IF (a % 2) + (b % 2) > 0 THEN 1 ELSE 0) + 2 * BitOr(a \div 2, b \div 2, n - 1)

XorByte(a, b) == BitXor(a, b, 8)
OrByte(a, b) == BitOr(a, b, 8)

\* Vec::truncate: keeps the first n elements, no effect when n >= len.
Truncate(v, n) == IF n >= Len(v) THEN v ELSE SubSeq(v, 1, n)

\* clear_on_drop's Clear::clear on a byte buffer: every byte becomes zero.
Clear(buf) == Zeros(Len(buf))

(***************************************************************************)
(* Result values.  tag is "Ok", "Err" or "Panic"; bytes is the Vec<u8> of  *)
(* an Ok(Vec<u8>), bool the value of an Ok(bool).                          *)
(***************************************************************************)

NoBytes == <<>>
OkBytes(b) == [tag |-> "Ok", err |-> "none", bytes |-> b, bool |-> FALSE]
OkBool(v) == [tag |-> "Ok", err |-> "none", bytes |-> NoBytes, bool |-> v]
Err(e) == [tag |-> "Err", err |-> e, bytes |-> NoBytes, bool |-> FALSE]
Panicked == [tag |-> "Panic", err |-> "none", bytes |-> NoBytes, bool |-> FALSE]
NoResult == [tag |-> "None", err |-> "none", bytes |-> NoBytes, bool |-> FALSE]

UnknownCryptoError == "UnknownCryptoError"
ValidationCryptoError == "ValidationCryptoError"

(***************************************************************************)
(* SHA-2 and HMAC.  The sha2 crate is a black box digest(message) of hLen  *)
(* bytes; Sha2Digest stands in for it with a position-sensitive checksum.  *)
(* HMAC (hazardous/hmac.rs) follows section 4.2.                           *)
(***************************************************************************)

ShaVariantOption == {"SHA256", "SHA384", "SHA512"}

output_size(h) ==
    CASE h = "SHA256" -> 32
      [] h = "SHA384" -> 48
      [] h = "SHA512" -> 64

blocksize(h) ==
    CASE h = "SHA256" -> 64
      [] h = "SHA384" -> 128
      [] h = "SHA512" -> 128

RECURSIVE WeightedSum(_, _, _)
WeightedSum(m, lo, hi) ==
    IF lo > hi THEN 0
    ELSE IF lo = hi THEN ((lo % 251) + 1) * (m[lo] + 1)
    ELSE LET mid == (lo + hi) \div 2
         IN  (WeightedSum(m, lo, mid) + WeightedSum(m, mid + 1, hi)) % 65521

Checksum(m) == ((Len(m) % 499) * 131 + WeightedSum(m, 1, Len(m))) % 65521

\* The digest bytes of a message whose checksum is c.
Sha2Bytes(h, c) ==
    AsSeq([i \in 1..output_size(h) |-> (c + (c \div 256) + 17 * i * ((c % 7) + 1)) % 256])

Sha2Digest(h, m) == Sha2Bytes(h, Checksum(m))

IpadTable == [b \in 0..255 |-> XorByte(b, 54)]
OpadTable == [b \in 0..255 |-> XorByte(b, 92)]

\* k, zero-padded to n bytes.
PadTo(k, n) == AsSeq([i \in 1..n |-> IF i <= Len(k) THEN k[i] ELSE 0])

\* Every byte of k sent through a pad table.
XorPad(k, table) == AsSeq([i \in 1..Len(k) |-> table[k[i]]])

\* The key adjusted to the block size: hashed when longer, then zero-padded.
Hmac_key(secret_key, sha2) ==
    IF Len(secret_key) > blocksize(sha2)
    THEN PadTo(Sha2Digest(sha2, secret_key), blocksize(sha2))
    ELSE PadTo(secret_key, blocksize(sha2))

\* The two nested hashes over the block-sized key k.
Hmac_nested(k, data, sha2) ==
    Sha2Digest(sha2, XorPad(k, OpadTable) \o Sha2Digest(sha2, XorPad(k, IpadTable) \o data))

Hmac_finalize(secret_key, data, sha2) ==
    Hmac_nested(Hmac_key(secret_key, sha2), data, sha2)


(***************************************************************************)
(* What a method call yields: its result, what it did in order (trace),    *)
(* derive_key's local prk as it is at return, and the sponge it drove.     *)
(***************************************************************************)

NoSponge == [rate |-> 0, delim |-> 0, absorbed |-> <<>>, log |-> <<>>]

Effect(res, tr, prk, sp) == [res |-> res, trace |-> tr, prk |-> prk, sponge |-> sp]

\* The record of the calls made on one parameter record: a set of
\* [op, arg, ret].  It is kept only where repeated calls are studied.
NoHistory == [on |-> FALSE, calls |-> {}]
EmptyHistory == [on |-> TRUE, calls |-> {}]

Remember(h, name, args, res) ==
    IF h.on THEN [h EXCEPT !.calls = @ \cup {[op |-> name, arg |-> args, ret |-> res]}]
    ELSE h

(***************************************************************************)
(* core/util.rs.                                                           *)
(***************************************************************************)

\* constant_time_eq's accumulator over positions lo..hi: the OR of the XORs.
\* OR is associative, so the range is halved to keep TLC's evaluation shallow.
RECURSIVE ct_accumulate(_, _, _, _)
ct_accumulate(a, b, lo, hi) ==
    IF lo > hi THEN 0
    ELSE IF lo = hi THEN XorByte(a[lo], b[lo])
    ELSE OrByte(ct_accumulate(a, b, lo, (lo + hi) \div 2),
                ct_accumulate(a, b, ((lo + hi) \div 2) + 1, hi))

\* The constant_time_eq crate: equal lengths and a zero accumulator.
constant_time_eq(a, b) ==
    Len(a) = Len(b) /\ ct_accumulate(a, b, 1, Len(a)) = 0

\* compare_ct with the content comparison left out.
compare_ct_length_only(a, b) ==
    IF Len(a) # Len(b) THEN Err(UnknownCryptoError) ELSE OkBool(TRUE)

\* compare_ct reporting a content mismatch as Ok(false).
compare_ct_false(a, b) ==
    IF Len(a) # Len(b) THEN Err(UnknownCryptoError)
    ELSE OkBool(constant_time_eq(a, b))

compare_ct(a, b) ==
    IF Len(a) # Len(b) THEN Err(UnknownCryptoError)
    ELSE IF constant_time_eq(a, b) THEN OkBool(TRUE)
    ELSE Err(UnknownCryptoError)

\* rand's OsRng as the environment of one call: whether OsRng::new and
\* try_fill_bytes succeed, and the bytes the operating system hands out, as a
\* pattern that is repeated over the buffer.
OsRng(new, read, entropy) == [new |-> new, read |-> read, entropy |-> entropy]

\* try_fill_bytes on a buffer: the buffer overwritten with the OS's bytes.
OsRng_try_fill_bytes(os, buf) ==
    AsSeq([i \in 1..Len(buf) |-> os.entropy[((i - 1) % Len(os.entropy)) + 1]])

\* gen_rand_key that hands out the buffer although try_fill_bytes failed.
gen_rand_key_unchecked_read(len, os) ==
    IF len < 1 THEN Err(UnknownCryptoError)
    ELSE IF os.new = "err" THEN Err(UnknownCryptoError)
    ELSE IF os.read = "err" THEN OkBytes(Zeros(len))
    ELSE OkBytes(OsRng_try_fill_bytes(os, Zeros(len)))

\* gen_rand_key: each ? turns the rand error into UnknownCryptoError.
gen_rand_key(len, os) ==
    IF len < 1 THEN Err(UnknownCryptoError)
    ELSE IF os.new = "err" THEN Err(UnknownCryptoError)
    ELSE IF os.read = "err" THEN Err(UnknownCryptoError)
    ELSE OkBytes(OsRng_try_fill_bytes(os, Zeros(len)))

(***************************************************************************)
(* HKDF, hazardous/hkdf.rs.  s is the record: salt, ikm, info, length,     *)
(* hmac.                                                                   *)
(***************************************************************************)

\* A bound of 256 blocks instead of 255.
Hkdf_max_okmlen_256(s) ==
    CASE output_size(s.hmac) = 32 -> 8192
      [] output_size(s.hmac) = 48 -> 12288
      [] output_size(s.hmac) = 64 -> 16384
      [] OTHER -> -1

\* A match without the arm of the 48-byte hash.
Hkdf_max_okmlen_no_384(s) ==
    CASE output_size(s.hmac) = 32 -> 8160
      [] output_size(s.hmac) = 64 -> 16320
      [] OTHER -> -1

\* max_okmlen: -1 stands for the panic of the match's last arm.
Hkdf_max_okmlen(s) ==
    CASE output_size(s.hmac) = 32 -> 8160
      [] output_size(s.hmac) = 48 -> 12240
      [] output_size(s.hmac) = 64 -> 16320
      [] OTHER -> -1

Hkdf_extract(s, salt, ikm) == Hmac_finalize(salt, ikm, s.hmac)

\* index as u8
Hkdf_counter(index) == index % 256

\* The end of one pass of expand's for loop; st is <<con_step, okm>>.
Hkdf_expand_push(st, con_step) == <<con_step, st[2] \o con_step>>

\* A pass of the loop with the arguments of extract exchanged.
Hkdf_expand_step_swapped(s, prk, st, index) ==
    Hkdf_expand_push(st, Hkdf_extract(s, st[1] \o s.info \o <<Hkdf_counter(index)>>, prk))

\* One pass of expand's for loop.
Hkdf_expand_step(s, prk, st, index) ==
    Hkdf_expand_push(st, Hkdf_extract(s, prk, st[1] \o s.info \o <<Hkdf_counter(index)>>))

\* The passes lo..hi of the for loop, in order.  The range is halved so that
\* TLC's evaluation stays shallow; Len(st[1]) makes TLC evaluate each pass
\* before the next one starts.
RECURSIVE Hkdf_expand_loop(_, _, _, _, _)
Hkdf_expand_loop(s, prk, st, lo, hi) ==
    IF Len(st[1]) < 0 \/ lo > hi THEN st
    ELSE IF lo = hi THEN Hkdf_expand_step(s, prk, st, lo)
    ELSE Hkdf_expand_loop(s, prk, Hkdf_expand_loop(s, prk, st, lo, (lo + hi) \div 2),
                          ((lo + hi) \div 2) + 1, hi)

Hkdf_n_iter(s) == 1 + ((s.length - 1) \div output_size(s.hmac))

\* expand refusing the maximum length itself.
Hkdf_expand_below_max(s, prk) ==
    IF s.length >= Hkdf_max_okmlen(s) \/ s.length < 1
    THEN Effect(Err(UnknownCryptoError), <<>>, <<>>, NoSponge)
    ELSE Effect(OkBytes(Truncate(
                    Hkdf_expand_loop(s, prk, <<<<>>, <<>>>>, 1, Hkdf_n_iter(s))[2],
                    s.length)),
                AsSeq([i \in 1..Hkdf_n_iter(s) |-> "hmac"]), <<>>, NoSponge)

\* expand; the trace has one "hmac" per HMAC invocation, "max_okmlen_panic"
\* when max_okmlen reaches its panic arm.
Hkdf_expand(s, prk) ==
    IF Hkdf_max_okmlen(s) < 0 THEN Effect(Panicked, <<"max_okmlen_panic">>, <<>>, NoSponge)
    ELSE IF s.length > Hkdf_max_okmlen(s)
    THEN Effect(Err(UnknownCryptoError), <<>>, <<>>, NoSponge)
    ELSE IF s.length < 1
    THEN Effect(Err(UnknownCryptoError), <<>>, <<>>, NoSponge)
    ELSE Effect(OkBytes(Truncate(
                    Hkdf_expand_loop(s, prk, <<<<>>, <<>>>>, 1, Hkdf_n_iter(s))[2],
                    s.length)),
                AsSeq([i \in 1..Hkdf_n_iter(s) |-> "hmac"]), <<>>, NoSponge)

\* derive_key returning expand's error at once (expand(&prk)?), prk not cleared.
Hkdf_derive_key_return_early(dk, prk) ==
    IF dk.res.tag = "Err"
    THEN [dk EXCEPT !.trace = <<"hmac">> \o @, !.prk = prk]
    ELSE [dk EXCEPT !.trace = <<"hmac">> \o @ \o <<"clear_prk">>, !.prk = Clear(prk)]

\* derive_key after expand has returned dk: prk is cleared, dk is returned.
Hkdf_derive_key_return(dk, prk) ==
    [dk EXCEPT !.trace = <<"hmac">> \o @ \o <<"clear_prk">>, !.prk = Clear(prk)]

\* derive_key from the point where extract has returned prk.
Hkdf_derive_key_with(s, prk) == Hkdf_derive_key_return(Hkdf_expand(s, prk), prk)

\* derive_key with salt and ikm exchanged.
Hkdf_derive_key_swapped(s) == Hkdf_derive_key_with(s, Hkdf_extract(s, s.ikm, s.salt))

Hkdf_derive_key(s) == Hkdf_derive_key_with(s, Hkdf_extract(s, s.salt, s.ikm))

\* verify handing compare_ct's own error to the caller.
Hkdf_verify_with_passed_error(own, expected_dk) ==
    IF own.res.tag # "Ok"
    THEN [own EXCEPT !.res = Panicked, !.trace = @ \o <<"panic">>]
    ELSE [own EXCEPT !.res = compare_ct(own.res.bytes, expected_dk)]

\* verify from the point where derive_key has returned own: unwrap panics on
\* an Err, compare_ct's error becomes ValidationCryptoError.
Hkdf_verify_with(own, expected_dk) ==
    IF own.res.tag # "Ok"
    THEN [own EXCEPT !.res = Panicked, !.trace = @ \o <<"panic">>]
    ELSE IF compare_ct(own.res.bytes, expected_dk).tag = "Err"
    THEN [own EXCEPT !.res = Err(ValidationCryptoError)]
    ELSE [own EXCEPT !.res = OkBool(TRUE)]

Hkdf_verify(s, expected_dk) == Hkdf_verify_with(Hkdf_derive_key(s), expected_dk)

\* A drop handler that forgets info.
Hkdf_drop_without_info(s) ==
    [s EXCEPT !.salt = Clear(@), !.ikm = Clear(@)]

\* impl Drop for Hkdf: the record's memory after drop.
Hkdf_drop(s) ==
    [s EXCEPT !.salt = Clear(@), !.ikm = Clear(@), !.info = Clear(@)]

(***************************************************************************)
(* PBKDF2, hazardous/pbkdf2.rs.  s is the record: password, salt,          *)
(* iterations, dklen, hmac.                                                *)
(***************************************************************************)

XorBytes(a, b) == AsSeq([k \in 1..Len(a) |-> XorByte(a[k], b[k])])

\* The block index as four bytes, most significant first.
BE32(i) ==
    <<(i \div 16777216) % 256, (i \div 65536) % 256, (i \div 256) % 256, i % 256>>

\* One further iteration of a block; st is <<u, t>>: the last HMAC output
\* and the XOR of all outputs so far.
Pbkdf2_iterate_push(st, u) == <<u, XorBytes(st[2], u)>>

Pbkdf2_iterate(s, st) == Pbkdf2_iterate_push(st, Hmac_finalize(s.password, st[1], s.hmac))

\* The iterations from .. s.iterations of a block, in order.
RECURSIVE Pbkdf2_iterations(_, _, _)
Pbkdf2_iterations(s, st, from) ==
    IF Len(st[1]) < 0 \/ from > s.iterations THEN st
    ELSE Pbkdf2_iterations(s, Pbkdf2_iterate(s, st), from + 1)

Pbkdf2_first(u) == <<u, u>>

\* The contribution of block index: U1 from salt and index, then the chain.
Pbkdf2_function_f(s, index) ==
    Pbkdf2_iterations(s,
        Pbkdf2_first(Hmac_finalize(s.password, s.salt \o BE32(index), s.hmac)), 2)[2]

\* The blocks index .. n appended to dk, in order.
RECURSIVE Pbkdf2_blocks(_, _, _, _)
Pbkdf2_blocks(s, dk, index, n) ==
    IF Len(dk) < 0 \/ index > n THEN dk
    ELSE Pbkdf2_blocks(s, dk \o Pbkdf2_function_f(s, index), index + 1, n)

Pbkdf2_n_blocks(s) == 1 + ((s.dklen - 1) \div output_size(s.hmac))

\* derive_key keeping every block whole.
Pbkdf2_derive_key_untruncated(s) ==
    IF s.iterations < 1 THEN Effect(Err(UnknownCryptoError), <<>>, <<>>, NoSponge)
    ELSE IF s.dklen < 1 THEN Effect(Err(UnknownCryptoError), <<>>, <<>>, NoSponge)
    ELSE Effect(OkBytes(Pbkdf2_blocks(s, <<>>, 1, Pbkdf2_n_blocks(s))),
                AsSeq([i \in 1..(Pbkdf2_n_blocks(s) * s.iterations) |-> "hmac"]),
                <<>>, NoSponge)

Pbkdf2_derive_key(s) ==
    IF s.iterations < 1 THEN Effect(Err(UnknownCryptoError), <<>>, <<>>, NoSponge)
    ELSE IF s.dklen < 1 THEN Effect(Err(UnknownCryptoError), <<>>, <<>>, NoSponge)
    ELSE Effect(OkBytes(Truncate(Pbkdf2_blocks(s, <<>>, 1, Pbkdf2_n_blocks(s)), s.dklen)),
                AsSeq([i \in 1..(Pbkdf2_n_blocks(s) * s.iterations) |-> "hmac"]),
                <<>>, NoSponge)

(***************************************************************************)
(* u64 values and left_encode, hazardous/cshake.rs.                        *)
(***************************************************************************)

U64Zero == Zeros(8)

\* The u64 of a non-negative integer below 2^31.
U64(n) == AsSeq([i \in 1..8 |-> IF i < 5 THEN 0 ELSE (n \div (256 ^ (8 - i))) % 256])

Reverse(x) == AsSeq([i \in 1..Len(x) |-> x[Len(x) + 1 - i]])

\* u64::to_le: the value itself on a little-endian target, its bytes swapped
\* on a big-endian one.
u64_to_le(x) == IF endian = "little" THEN x ELSE Reverse(x)

\* byte_tools::write_u64_be: the eight bytes of x, most significant first.
write_u64_be(x) == x

\* The for loop of left_encode: the number of leading zero bytes of input.
RECURSIVE leading_zeros(_, _)
leading_zeros(input, from) ==
    IF from > Len(input) THEN 0
    ELSE IF input[from] # 0 THEN 0
    ELSE 1 + leading_zeros(input, from + 1)

\* The 9-byte buffer before the count byte is written.
left_encode_input(x) ==
    IF x = U64Zero THEN Zeros(9) ELSE <<0>> \o write_u64_be(u64_to_le(x))

left_encode_offset(x) ==
    IF x = U64Zero THEN 8 ELSE leading_zeros(left_encode_input(x), 1)

\* An encoding with the count after the bytes it counts (right_encode).
left_encode_at_count_last(input, offset) ==
    IF offset - 1 < 0 \/ offset - 1 > 8 THEN Panicked
    ELSE OkBytes(SubSeq(input, offset + 1, 9) \o <<(9 - offset) % 256>>)

\* The last two statements: input[offset - 1] panics when offset - 1 is no
\* index of the buffer.
left_encode_at(input, offset) ==
    IF offset - 1 < 0 \/ offset - 1 > 8 THEN Panicked
    ELSE OkBytes(SubSeq([input EXCEPT ![offset] = (9 - offset) % 256], offset, 9))

left_encode(x) == left_encode_at(left_encode_input(x), left_encode_offset(x))

(***************************************************************************)
(* The Keccak sponge of the tiny_keccak crate, as a black box: what it has *)
(* absorbed, and a digest that is a checksum of it.  log has one entry per *)
(* call, <<kind, number of bytes>>.                                        *)
(***************************************************************************)

Keccak_new(r, d) == [rate |-> r, delim |-> d, absorbed |-> <<>>, log |-> <<>>]

Keccak_update(k, bytes) ==
    [k EXCEPT !.absorbed = @ \o bytes, !.log = Append(@, <<"update", Len(bytes)>>)]

\* The number of zero bytes up to the next multiple of the rate.
Keccak_gap(k) == (k.rate - (Len(k.absorbed) % k.rate)) % k.rate

Keccak_fill_block(k) ==
    [k EXCEPT !.absorbed = @ \o Zeros(Keccak_gap(k)),
              !.log = Append(@, <<"fill_block", Keccak_gap(k)>>)]

\* The n digest bytes of a sponge whose content has checksum c.
Keccak_bytes(c, n) ==
    AsSeq([i \in 1..n |-> (c + (c \div 256) + 29 * i * ((c % 5) + 1)) % 256])

\* finalize: pad, permute, squeeze n bytes: [hash, state].
Keccak_finalize(k, n) ==
    [hash |-> Keccak_bytes(Checksum(k.absorbed) + k.rate + k.delim, n),
     state |-> [k EXCEPT !.log = Append(@, <<"finalize", n>>)]]

(***************************************************************************)
(* cSHAKE, hazardous/cshake.rs.  s is the record: input, name, custom,     *)
(* length, keccak.                                                         *)
(***************************************************************************)

KeccakVariantOption == {"KECCAK256", "KECCAK512"}

CShake_rate(s) ==
    CASE s.keccak = "KECCAK256" -> 168
      [] s.keccak = "KECCAK512" -> 136

\* keccak_init handing out the sponge of the previous call instead of a new one.
CShake_keccak_init_reused(s) ==
    IF sponge = NoSponge THEN Keccak_new(CShake_rate(s), 4) ELSE sponge

CShake_keccak_init(s) ==
    CASE s.keccak = "KECCAK256" -> Keccak_new(CShake_rate(s), 4)
      [] s.keccak = "KECCAK512" -> Keccak_new(CShake_rate(s), 4)

\* keccak_finalize: [hash, state].
CShake_keccak_finalize(s, state) ==
    Keccak_finalize(Keccak_update(state, s.input), s.length)

\* The kinds of a sponge's log, as a trace.
SpongeTrace(k) == AsSeq([i \in 1..Len(k.log) |-> k.log[i][1]])

\* finalize's Ok(..) around what keccak_finalize returned.
CShake_finalize_return(fin) ==
    Effect(OkBytes(fin.hash), SpongeTrace(fin.state), <<>>, fin.state)

\* finalize without fill_block: input follows custom directly.
CShake_finalize_with_unpadded(s, e_rate, e_name, e_custom) ==
    IF e_rate.tag = "Panic" \/ e_name.tag = "Panic" \/ e_custom.tag = "Panic"
    THEN Effect(Panicked, <<"panic">>, <<>>, NoSponge)
    ELSE CShake_finalize_return(CShake_keccak_finalize(s,
              Keccak_update(
                Keccak_update(
                  Keccak_update(
                    Keccak_update(
                      Keccak_update(CShake_keccak_init(s), e_rate.bytes),
                      e_name.bytes),
                    s.name),
                  e_custom.bytes),
                s.custom)))

\* finalize from the point where the three left_encode calls have returned.
CShake_finalize_with(s, e_rate, e_name, e_custom) ==
    IF e_rate.tag = "Panic" \/ e_name.tag = "Panic" \/ e_custom.tag = "Panic"
    THEN Effect(Panicked, <<"panic">>, <<>>, NoSponge)
    ELSE CShake_finalize_return(CShake_keccak_finalize(s,
            Keccak_fill_block(
              Keccak_update(
                Keccak_update(
                  Keccak_update(
                    Keccak_update(
                      Keccak_update(CShake_keccak_init(s), e_rate.bytes),
                      e_name.bytes),
                    s.name),
                  e_custom.bytes),
                s.custom))))

\* finalize without the check that name and custom are not both empty.
CShake_finalize_unchecked_empty(s) ==
    IF s.length = 0 \/ s.length > 65536
    THEN Effect(Err(UnknownCryptoError), <<>>, <<>>, NoSponge)
    ELSE IF Len(s.name) > 65536 \/ Len(s.custom) > 65536
    THEN Effect(Err(UnknownCryptoError), <<>>, <<>>, NoSponge)
    ELSE CShake_finalize_with(s, left_encode(U64(CShake_rate(s))),
                              left_encode(U64(Len(s.name) * 8)),
                              left_encode(U64(Len(s.custom) * 8)))

CShake_finalize(s) ==
    IF Len(s.name) = 0 /\ Len(s.custom) = 0
    THEN Effect(Err(UnknownCryptoError), <<>>, <<>>, NoSponge)
    ELSE IF s.length = 0 \/ s.length > 65536
    THEN Effect(Err(UnknownCryptoError), <<>>, <<>>, NoSponge)
    ELSE IF Len(s.name) > 65536 \/ Len(s.custom) > 65536
    THEN Effect(Err(UnknownCryptoError), <<>>, <<>>, NoSponge)
    ELSE CShake_finalize_with(s, left_encode(U64(CShake_rate(s))),
                              left_encode(U64(Len(s.name) * 8)),
                              left_encode(U64(Len(s.custom) * 8)))

\* verify from the point where finalize has returned own.
CShake_verify_with(own, input) ==
    IF own.res.tag # "Ok"
    THEN [own EXCEPT !.res = Panicked, !.trace = @ \o <<"panic">>]
    ELSE IF compare_ct(own.res.bytes, input).tag = "Err"
    THEN [own EXCEPT !.res = Err(ValidationCryptoError)]
    ELSE [own EXCEPT !.res = OkBool(TRUE)]

CShake_verify(s, input) == CShake_verify_with(CShake_finalize(s), input)

\* A drop handler that clears name as well.
CShake_drop_with_name(s) ==
    [s EXCEPT !.input = Clear(@), !.name = Clear(@), !.custom = Clear(@)]

\* impl Drop for CShake: the record's memory after drop.
CShake_drop(s) ==
    [s EXCEPT !.input = Clear(@), !.custom = Clear(@)]

(***************************************************************************)
(* The records and arguments a caller supplies.                            *)
(***************************************************************************)

MaxCalls == 2

HkdfRecord(salt, ikm, info, length, hmac) ==
    [kind |-> "Hkdf", salt |-> salt, ikm |-> ikm, info |-> info,
     length |-> length, hmac |-> hmac]

CShakeRecord(input, name, custom, length, keccak) ==
    [kind |-> "CShake", input |-> input, name |-> name, custom |-> custom,
     length |-> length, keccak |-> keccak]

SaltSamples == {<<>>, <<115, 97, 108, 116>>}
IkmSamples == {<<11, 11, 11>>}
InfoSamples == {<<>>, <<240, 241>>}

\* Lengths below, at and beyond one hash block, and beyond 255 blocks.
HkdfLengthSamples(h) ==
    {0, 1, output_size(h), output_size(h) + 10, 255 * output_size(h) + 1}

HkdfSamples ==
    {HkdfRecord(salt, ikm, info, x[2], x[1]) :
        salt \in SaltSamples, ikm \in IkmSamples, info \in InfoSamples,
        x \in UNION {{<<h, n>> : n \in HkdfLengthSamples(h)} : h \in ShaVariantOption}}

InputSamples == {<<>>, <<0, 1, 2, 3>>}
NameSamples == {<<>>, <<78>>}
CustomSamples == {<<>>, <<69, 109>>}
CShakeLengthSamples == {0, 1, 17, 32, 65537}

CShakeSamples ==
    {CShakeRecord(input, name, custom, length, keccak) :
        input \in InputSamples, name \in NameSamples, custom \in CustomSamples,
        length \in CShakeLengthSamples, keccak \in KeccakVariantOption}

\* The last byte with its lowest bit flipped.
FlipLast(b) ==
    IF Len(b) = 0 THEN b ELSE [b EXCEPT ![Len(b)] = XorByte(@, 1)]

\* What a caller hands to verify: the last output, a copy with the last byte
\* flipped, one byte shorter, one byte longer.
Candidates(b) ==
    {b, FlipLast(b), Truncate(b, Len(b) - 1), b \o <<0>>}

NoOutput == [op |-> "none", bytes |-> <<>>]

(***************************************************************************)
(* The caller: one record, its method calls, its drop.                     *)
(***************************************************************************)

Fresh(r) ==
    /\ pc = "live"
    /\ made = r
    /\ self = r
    /\ calls = 0
    /\ out = NoOutput
    /\ op = "new"
    /\ arg = <<>>
    /\ ret = NoResult
    /\ trace = <<>>
    /\ prk_mem = <<>>
    /\ sponge = NoSponge

Init ==
    /\ endian \in {"little", "big"}
    /\ hist = NoHistory
    /\ \E r \in HkdfSamples \cup CShakeSamples : Fresh(r)

\* A method call that zeroes the record's secret fields when it returns.
Returned_zeroing(name, args, e) ==
    /\ op' = name
    /\ arg' = args
    /\ ret' = e.res
    /\ trace' = e.trace
    /\ prk_mem' = e.prk
    /\ sponge' = e.sponge
    /\ hist' = Remember(hist, name, args, e.res)
    /\ calls' = calls + 1
    /\ pc' = IF e.res.tag = "Panic" THEN "panic" ELSE "live"
    /\ out' = IF e.res.tag = "Ok" /\ name # "verify"
              THEN [op |-> name, bytes |-> e.res.bytes] ELSE out
    /\ self' = IF self.kind = "Hkdf" THEN Hkdf_drop(self) ELSE CShake_drop(self)
    /\ UNCHANGED <<endian, made>>

\* A method call that yielded e: the record is untouched (&self).
Returned(name, args, e) ==
    /\ op' = name
    /\ arg' = args
    /\ ret' = e.res
    /\ trace' = e.trace
    /\ prk_mem' = e.prk
    /\ sponge' = e.sponge
    /\ hist' = Remember(hist, name, args, e.res)
    /\ calls' = calls + 1
    /\ pc' = IF e.res.tag = "Panic" THEN "panic" ELSE "live"
    /\ out' = IF e.res.tag = "Ok" /\ name # "verify"
              THEN [op |-> name, bytes |-> e.res.bytes] ELSE out
    /\ UNCHANGED <<endian, made, self>>

Callable(kind, limit) ==
    /\ pc = "live"
    /\ self.kind = kind
    /\ calls < limit

HkdfExtract(limit) ==
    /\ Callable("Hkdf", limit)
    /\ \E a \in {<<self.salt, self.ikm>>, <<self.ikm, self.salt>>} :
          Returned("extract", a,
                   Effect(OkBytes(Hkdf_extract(self, a[1], a[2])), <<"hmac">>, <<>>, NoSponge))

HkdfExpand(limit) ==
    /\ Callable("Hkdf", limit)
    /\ \E prk \in {Zeros(output_size(self.hmac))}
                     \cup (IF out.op = "extract" THEN {out.bytes} ELSE {}) :
          Returned("expand", <<prk>>, Hkdf_expand(self, prk))

HkdfDeriveKey(limit) ==
    /\ Callable("Hkdf", limit)
    /\ Returned("derive_key", <<>>, Hkdf_derive_key(self))

HkdfVerify(limit) ==
    /\ Callable("Hkdf", limit)
    /\ \E c \in Candidates(out.bytes) :
          Returned("verify", <<c>>, Hkdf_verify(self, c))

CShakeFinalize(limit) ==
    /\ Callable("CShake", limit)
    /\ Returned("finalize", <<>>, CShake_finalize(self))

CShakeVerify(limit) ==
    /\ Callable("CShake", limit)
    /\ \E c \in Candidates(out.bytes) :
          Returned("verify", <<c>>, CShake_verify(self, c))

\* The record goes out of scope, also while a panic unwinds.
Drop ==
    /\ pc \in {"live", "panic"}
    /\ pc' = "dropped"
    /\ self' = IF self.kind = "Hkdf" THEN Hkdf_drop(self) ELSE CShake_drop(self)
    /\ UNCHANGED <<endian, made, calls, out, op, arg, ret, trace, prk_mem, sponge, hist>>

Next ==
    \/ HkdfExtract(MaxCalls)
    \/ HkdfExpand(MaxCalls)
    \/ HkdfDeriveKey(MaxCalls)
    \/ HkdfVerify(MaxCalls)
    \/ CShakeFinalize(MaxCalls)
    \/ CShakeVerify(MaxCalls)
    \/ Drop

Spec == Init /\ [][Next]_vars

(***************************************************************************)
(* The length limits: records at the limits of HKDF and cSHAKE, one call   *)
(* of expand, derive_key or finalize on each.                              *)
(***************************************************************************)

\* Around zero, around one hash block, around 255 blocks.
HkdfLimitLengths(h) ==
    {0, 1, 2, output_size(h) - 1, output_size(h), output_size(h) + 1,
     255 * output_size(h) - 1, 255 * output_size(h), 255 * output_size(h) + 1}

HkdfLimitSamples ==
    {HkdfRecord(<<>>, <<11, 11, 11>>, <<240>>, x[2], x[1]) :
        x \in UNION {{<<h, n>> : n \in HkdfLimitLengths(h)} : h \in ShaVariantOption}}

NameLimitSamples == {<<>>, <<78>>, Zeros(65536), Zeros(65537)}
CustomLimitSamples == {<<>>, <<69, 109>>, Zeros(65536), Zeros(65537)}
CShakeLimitLengths == {0, 1, 65536, 65537}

CShakeLimitSamples ==
    {CShakeRecord(input, name, custom, length, keccak) :
        input \in InputSamples, name \in NameLimitSamples, custom \in CustomLimitSamples,
        length \in CShakeLimitLengths, keccak \in KeccakVariantOption}

InitLimits ==
    /\ endian \in {"little", "big"}
    /\ hist = NoHistory
    /\ \E r \in HkdfLimitSamples \cup CShakeLimitSamples : Fresh(r)

NextLimits ==
    \/ HkdfExpand(1)
    \/ HkdfDeriveKey(1)
    \/ CShakeFinalize(1)

SpecLimits == InitLimits /\ [][NextLimits]_vars

(***************************************************************************)
(* Repeated calls: up to MaxRepeat method calls, in any order, on one      *)
(* record, every call and its result recorded in hist, then the drop.      *)
(***************************************************************************)

MaxRepeat == 3

RepeatHkdfSamples ==
    {HkdfRecord(<<115, 97, 108, 116>>, <<11, 11, 11>>, <<240, 241>>, x[2], x[1]) :
        x \in {<<"SHA256", 0>>, <<"SHA256", 42>>, <<"SHA512", 64>>}}

RepeatCShakeSamples ==
    {CShakeRecord(<<0, 1, 2, 3>>, <<78>>, <<69, 109>>, x[2], x[1]) :
        x \in {<<"KECCAK256", 0>>, <<"KECCAK256", 17>>, <<"KECCAK512", 32>>}}

InitRepeat ==
    /\ endian \in {"little", "big"}
    /\ hist = EmptyHistory
    /\ \E r \in RepeatHkdfSamples \cup RepeatCShakeSamples : Fresh(r)

NextRepeat ==
    \/ HkdfExtract(MaxRepeat)
    \/ HkdfExpand(MaxRepeat)
    \/ HkdfDeriveKey(MaxRepeat)
    \/ HkdfVerify(MaxRepeat)
    \/ CShakeFinalize(MaxRepeat)
    \/ CShakeVerify(MaxRepeat)
    \/ Drop

SpecRepeat == InitRepeat /\ [][NextRepeat]_vars

(***************************************************************************)
(* PBKDF2: one derive_key call on a record.                                *)
(***************************************************************************)

MaxIterations == 3

Pbkdf2Record(password, salt, iterations, dklen, hmac) ==
    [kind |-> "Pbkdf2", password |-> password, salt |-> salt,
     iterations |-> iterations, dklen |-> dklen, hmac |-> hmac]

PasswordSamples == {<<>>, <<112, 97, 115, 115, 119, 111, 114, 100>>}

\* Below, at and beyond one and two hash blocks.
DklenSamples(h) ==
    {0, 1, output_size(h) - 1, output_size(h), output_size(h) + 1,
     2 * output_size(h), 2 * output_size(h) + 5}

Pbkdf2Samples ==
    {Pbkdf2Record(password, salt, iterations, x[2], x[1]) :
        password \in PasswordSamples, salt \in SaltSamples,
        iterations \in 0..MaxIterations,
        x \in UNION {{<<h, n>> : n \in DklenSamples(h)} : h \in ShaVariantOption}}

InitPbkdf2 ==
    /\ endian \in {"little", "big"}
    /\ hist = NoHistory
    /\ \E r \in Pbkdf2Samples : Fresh(r)

Pbkdf2DeriveKey(limit) ==
    /\ Callable("Pbkdf2", limit)
    /\ Returned("derive_key", <<>>, Pbkdf2_derive_key(self))

NextPbkdf2 == Pbkdf2DeriveKey(1)

SpecPbkdf2 == InitPbkdf2 /\ [][NextPbkdf2]_vars

(***************************************************************************)
(* The free functions compare_ct and left_encode, each applied once to     *)
(* arguments drawn from samples.                                           *)
(***************************************************************************)

NoRecord == [kind |-> "none"]

\* A free function about to be called with args.
Pending(args) ==
    /\ pc = "call"
    /\ made = NoRecord
    /\ self = NoRecord
    /\ calls = 0
    /\ out = NoOutput
    /\ op = "new"
    /\ arg = args
    /\ ret = NoResult
    /\ trace = <<>>
    /\ prk_mem = <<>>
    /\ sponge = NoSponge
    /\ hist = NoHistory

\* The free function name returned r.
Done(name, r) ==
    /\ pc = "call"
    /\ pc' = "done"
    /\ op' = name
    /\ ret' = r
    /\ calls' = calls + 1
    /\ UNCHANGED <<endian, made, self, out, arg, trace, prk_mem, sponge, hist>>

MaxCtLen == 2

CtByteSamples == {0, 6, 118}

ByteStrings(n) == UNION {{AsSeq(f) : f \in [1..k -> CtByteSamples]} : k \in 0..n}

InitCt ==
    /\ endian \in {"little", "big"}
    /\ \E a \in ByteStrings(MaxCtLen), b \in ByteStrings(MaxCtLen) : Pending(<<a, b>>)

CompareCt == Done("compare_ct", compare_ct(arg[1], arg[2]))

NextCt == CompareCt

SpecCt == InitCt /\ [][NextCt]_vars

\* u64::MAX
U64Max == AsSeq([i \in 1..8 |-> 255])

\* 0..MaxSmallU64, and values of every byte length up to u64::MAX.
MaxSmallU64 == 300

U64Samples ==
    {U64(n) : n \in 0..MaxSmallU64}
    \cup {U64(n) : n \in {65535, 65536, 524288, 16777215, 16777216}}
    \cup {AsSeq([i \in 1..8 |-> IF i = k THEN b ELSE 0]) : k \in 1..8, b \in {1, 255}}
    \cup {<<1, 2, 3, 4, 5, 6, 7, 8>>, <<0, 0, 0, 1, 0, 0, 0, 255>>, U64Max}

InitEnc ==
    /\ endian \in {"little", "big"}
    /\ \E x \in U64Samples : Pending(<<x>>)

LeftEncode == Done("left_encode", left_encode(arg[1]))

NextEnc == LeftEncode

SpecEnc == InitEnc /\ [][NextEnc]_vars

\* gen_rand_key: lengths 0..MaxRandLen and one length beyond every limit of
\* the library, every outcome of the OS generator.
MaxRandLen == 3

RandLenSamples == (0..MaxRandLen) \cup {70000}

\* The bytes the OS may hand out for a request of len bytes: every string of
\* len sample bytes for a short request, two patterns for the long one.
EntropySamples(len) ==
    IF len <= MaxRandLen THEN {AsSeq(f) : f \in [1..len -> CtByteSamples]}
    ELSE {<<0>>, <<7, 14, 250>>}

OsRngSamples(len) ==
    {OsRng(new, read, entropy) :
        new \in {"ok", "err"}, read \in {"ok", "err"}, entropy \in EntropySamples(len)}

InitRand ==
    /\ endian \in {"little", "big"}
    /\ \E len \in RandLenSamples : \E os \in OsRngSamples(len) : Pending(<<len, os>>)

GenRandKey == Done("gen_rand_key", gen_rand_key(arg[1], arg[2]))

NextRand == GenRandKey

SpecRand == InitRand /\ [][NextRand]_vars

(***************************************************************************)
(* Properties.                                                             *)
(***************************************************************************)

\* The parameters the documentation allows.
ValidHkdf(r) ==
    /\ r.kind = "Hkdf"
    /\ r.length >= 1
    /\ r.length <= 255 * output_size(r.hmac)

ValidCShake(r) ==
    /\ r.kind = "CShake"
    /\ ~(r.name = <<>> /\ r.custom = <<>>)
    /\ r.length >= 1
    /\ r.length <= 65536
    /\ Len(r.name) <= 65536
    /\ Len(r.custom) <= 65536

Valid(r) == IF r.kind = "Hkdf" THEN ValidHkdf(r) ELSE ValidCShake(r)

IsTypedError(r) ==
    r.tag = "Err" /\ r.err \in {UnknownCryptoError, ValidationCryptoError}

\* C1: verify, on any record and any candidate, invalid parameters included,
\* returns Ok(true) or a typed error value and never panics.
C1_VerifyNeverPanics ==
    op = "verify" => (pc # "panic" /\ (ret = OkBool(TRUE) \/ IsTypedError(ret)))

\* C5: on a valid record verify yields Ok(true) or the one value
\* Err(ValidationCryptoError); a candidate of the wrong length and a candidate
\* of the right length that differs from the derived output both yield that
\* same value, never Ok(false), never UnknownCryptoError.
C5_VerifyFailureUniform ==
    (op = "verify" /\ Valid(made)) =>
        /\ ret = OkBool(TRUE) \/ ret = Err(ValidationCryptoError)
        /\ Len(arg[1]) # made.length => ret = Err(ValidationCryptoError)
        /\ (out.op \in {"derive_key", "finalize"} /\ Len(arg[1]) = made.length
               /\ arg[1] # out.bytes) => ret = Err(ValidationCryptoError)

C5_WrongLengthRejected ==
    /\ op = "verify"
    /\ Valid(made)
    /\ out.op \in {"derive_key", "finalize"}
    /\ Len(arg[1]) # made.length
    /\ ret = Err(ValidationCryptoError)

\* C6: verifying the output that derive_key (finalize) returned for the same
\* record yields Ok(true); verifying it with its last byte flipped yields
\* Err(ValidationCryptoError).
C6_RoundTrip ==
    (op = "verify" /\ out.op \in {"derive_key", "finalize"}) =>
        /\ arg[1] = out.bytes => ret = OkBool(TRUE)
        /\ arg[1] = FlipLast(out.bytes) => ret = Err(ValidationCryptoError)

C6_RoundTripDone ==
    /\ op = "verify"
    /\ made.kind = "Hkdf"
    /\ out.op = "derive_key"
    /\ arg[1] = out.bytes
    /\ ret = OkBool(TRUE)

\* C7: when derive_key, expand or finalize returns UnknownCryptoError, no HMAC
\* invocation and no sponge absorb has been executed on that call.
C7_ErrorBeforeSecretWork ==
    (op \in {"derive_key", "expand", "finalize"} /\ ret = Err(UnknownCryptoError)) =>
        \A i \in 1..Len(trace) : trace[i] \notin {"hmac", "update"}

\* C8: when derive_key returns, on the Ok path and on the Err path, the last
\* thing it did was to clear prk, after extract's and expand's HMAC
\* invocations, and prk holds only zero bytes.
C8_PrkCleared ==
    op = "derive_key" =>
        /\ ret.tag \in {"Ok", "Err"}
        /\ Len(trace) >= 2
        /\ trace[Len(trace)] = "clear_prk"
        /\ \A i \in 1..(Len(trace) - 1) : trace[i] = "hmac"
        /\ Len(prk_mem) = output_size(made.hmac)
        /\ IsZeroed(prk_mem)

C8_ClearedOnErrorPath ==
    /\ op = "derive_key"
    /\ ret = Err(UnknownCryptoError)
    /\ trace[Len(trace)] = "clear_prk"
    /\ Len(prk_mem) > 0
    /\ IsZeroed(prk_mem)

\* C9: once the record is dropped, salt, ikm and info of an Hkdf record and
\* input and custom of a CShake record hold only zero bytes, whatever was
\* called on the record before.
C9_DropZeroes ==
    pc = "dropped" =>
        /\ self.kind = "Hkdf" =>
              /\ IsZeroed(self.salt) /\ Len(self.salt) = Len(made.salt)
              /\ IsZeroed(self.ikm) /\ Len(self.ikm) = Len(made.ikm)
              /\ IsZeroed(self.info) /\ Len(self.info) = Len(made.info)
        /\ self.kind = "CShake" =>
              /\ IsZeroed(self.input) /\ Len(self.input) = Len(made.input)
              /\ IsZeroed(self.custom) /\ Len(self.custom) = Len(made.custom)

C9_DroppedAfterFailure ==
    /\ pc = "dropped"
    /\ made.kind = "Hkdf"
    /\ ~IsZeroed(made.salt) /\ ~IsZeroed(made.ikm) /\ ~IsZeroed(made.info)
    /\ calls >= 1
    /\ ret.tag \in {"Err", "Panic"}
    /\ IsZeroed(self.salt) /\ IsZeroed(self.ikm) /\ IsZeroed(self.info)

\* C2: for every hash variant expand and derive_key return
\* Err(UnknownCryptoError) exactly when length = 0 or length > 255 * hLen
\* (8160, 12240, 16320), and otherwise Ok with exactly length bytes.
C2_HkdfLengthContract ==
    (op \in {"expand", "derive_key"}) =>
        /\ 255 * output_size(made.hmac) =
              (CASE made.hmac = "SHA256" -> 8160
                 [] made.hmac = "SHA384" -> 12240
                 [] made.hmac = "SHA512" -> 16320)
        /\ (made.length = 0 \/ made.length > 255 * output_size(made.hmac))
              <=> ret = Err(UnknownCryptoError)
        /\ (made.length >= 1 /\ made.length <= 255 * output_size(made.hmac))
              => (ret.tag = "Ok" /\ Len(ret.bytes) = made.length)

C2_MaxLengthAccepted ==
    /\ op = "expand"
    /\ made.hmac = "SHA512"
    /\ made.length = 16320
    /\ ret.tag = "Ok"
    /\ Len(ret.bytes) = 16320

\* The parameters finalize is documented to refuse.
CShakeRefused(r) ==
    \/ r.name = <<>> /\ r.custom = <<>>
    \/ r.length = 0
    \/ r.length > 65536
    \/ Len(r.name) > 65536
    \/ Len(r.custom) > 65536

\* C3: finalize returns Err(UnknownCryptoError) exactly when name and custom
\* are both empty, or length = 0, or length > 65536, or name or custom is
\* longer than 65536 bytes, and otherwise Ok with exactly length bytes.
C3_CShakeLengthContract ==
    op = "finalize" =>
        /\ CShakeRefused(made) <=> ret = Err(UnknownCryptoError)
        /\ ~CShakeRefused(made) => (ret.tag = "Ok" /\ Len(ret.bytes) = made.length)

C3_LimitsAccepted ==
    /\ op = "finalize"
    /\ made.length = 65536
    /\ Len(made.name) = 65536
    /\ made.custom = <<>>
    /\ made.input = <<>>
    /\ ret.tag = "Ok"
    /\ Len(ret.bytes) = 65536

\* C4: compare_ct returns Ok(true) exactly when the two slices have equal
\* length and equal bytes, Err(UnknownCryptoError) otherwise, never Ok(false).
C4_CompareCt ==
    op = "compare_ct" =>
        /\ ret = OkBool(TRUE) <=> arg[1] = arg[2]
        /\ arg[1] # arg[2] => ret = Err(UnknownCryptoError)
        /\ ret # OkBool(FALSE)

C4_SameLengthDiffers ==
    /\ op = "compare_ct"
    /\ Len(arg[1]) = Len(arg[2])
    /\ Len(arg[1]) = 2
    /\ arg[1][1] = arg[2][1]
    /\ arg[1][2] # arg[2][2]
    /\ ret = Err(UnknownCryptoError)

\* The bytes of x from its first non-zero byte on; <<0>> for zero.
MinimalBigEndian(x) ==
    IF \A i \in 1..8 : x[i] = 0 THEN <<0>>
    ELSE SubSeq(x, CHOOSE k \in 1..8 : x[k] # 0 /\ \A j \in 1..(k - 1) : x[j] = 0, 8)

\* C10: left_encode(x) is the count n of the bytes of the minimal big-endian
\* representation of x followed by those n bytes; left_encode(0) = [1, 0],
\* left_encode(32) = [1, 32], left_encode(255) = [1, 255],
\* left_encode(u64::MAX) = [8, 255 x 8]; the index offset - 1 is within the
\* buffer.
C10_LeftEncodeExact ==
    op = "left_encode" =>
        /\ ret.tag = "Ok"
        /\ ret.bytes = <<Len(MinimalBigEndian(arg[1]))>> \o MinimalBigEndian(arg[1])
        /\ arg[1] = U64(0) => ret.bytes = <<1, 0>>
        /\ arg[1] = U64(32) => ret.bytes = <<1, 32>>
        /\ arg[1] = U64(255) => ret.bytes = <<1, 255>>
        /\ arg[1] = U64Max => ret.bytes = <<8, 255, 255, 255, 255, 255, 255, 255, 255>>

\* C11 (as stated): left_encode(x) is the minimal big-endian bytes of x
\* followed by a final byte holding their count.
C11_CountByteLast ==
    op = "left_encode" =>
        /\ ret.tag = "Ok"
        /\ ret.bytes = MinimalBigEndian(arg[1]) \o <<Len(MinimalBigEndian(arg[1]))>>

\* C11 (amended): the count byte is the first byte of the output: it holds
\* the number of bytes that follow it, between 1 and 8; left_encode(0) is
\* [1, 0]; on a little-endian target the bytes after the count are the minimal
\* big-endian representation of x.
C11_CountByteFirst ==
    op = "left_encode" =>
        /\ ret.tag = "Ok"
        /\ Len(ret.bytes) \in 2..9
        /\ ret.bytes[1] = Len(ret.bytes) - 1
        /\ arg[1] = U64Zero => ret.bytes = <<1, 0>>
        /\ endian = "little" =>
              SubSeq(ret.bytes, 2, Len(ret.bytes)) = MinimalBigEndian(arg[1])

C11_TwoByteValueEncoded ==
    /\ op = "left_encode"
    /\ endian = "little"
    /\ arg[1] = U64(256)
    /\ ret = OkBytes(<<2, 1, 0>>)

\* C12: gen_rand_key(len) returns Err(UnknownCryptoError) when len < 1 or
\* when the OS generator cannot be created or read, and otherwise Ok with
\* exactly len bytes; no upper bound on len is enforced.
C12_GenRandKey ==
    op = "gen_rand_key" =>
        /\ (arg[1] < 1 \/ arg[2].new = "err" \/ arg[2].read = "err")
              <=> ret = Err(UnknownCryptoError)
        /\ (arg[1] >= 1 /\ arg[2].new = "ok" /\ arg[2].read = "ok")
              => (ret.tag = "Ok" /\ Len(ret.bytes) = arg[1])

C12_LongKeyReturned ==
    /\ op = "gen_rand_key"
    /\ arg[1] = 70000
    /\ ret.tag = "Ok"
    /\ Len(ret.bytes) = 70000
    /\ arg[2].entropy = <<7, 14, 250>>
    /\ ret.bytes[70000] = 7

\* C13: extract, expand, derive_key, verify of Hkdf and finalize, verify of
\* CShake leave every field of the record unchanged, and calls repeated on
\* the same record with the same arguments, in any order and with other
\* calls in between, return the same result as the first such call.
C13_Deterministic ==
    /\ pc # "dropped" => self = made
    /\ \A a \in hist.calls : \A b \in hist.calls :
          (a.op = b.op /\ a.arg = b.arg) => a.ret = b.ret
    /\ op # "new" => [op |-> op, arg |-> arg, ret |-> ret] \in hist.calls

\* finalize, verify of its output, finalize again.
C13_RepeatedAfterOtherCall ==
    /\ calls = 3
    /\ op = "finalize"
    /\ ret.tag = "Ok"
    /\ Cardinality(hist.calls) = 2
    /\ \E a \in hist.calls :
          a.op = "verify" /\ a.ret = OkBool(TRUE) /\ Len(a.arg[1]) = made.length

\* The fields the drop handlers clear.
SecretsZeroed(r) ==
    IF r.kind = "Hkdf"
    THEN IsZeroed(r.salt) /\ IsZeroed(r.ikm) /\ IsZeroed(r.info)
    ELSE IsZeroed(r.input) /\ IsZeroed(r.custom)

\* C14 (as stated): a record is consumed by exactly one finalize/derive
\* operation: when all calls made on it are derive_key, finalize or verify,
\* there is at most one of them, and once it has returned the record's
\* secret fields are zeroed.
C14_SingleUse ==
    (calls >= 1 /\ \A a \in hist.calls : a.op \in {"derive_key", "finalize", "verify"}) =>
        /\ calls <= 1
        /\ SecretsZeroed(self)

\* C14 (amended): a record can be used for several finalize/derive/verify
\* calls; while it is alive, after any number of calls, all its fields, the
\* secret ones included, are as the caller constructed them; the secret
\* fields are zeroed when the record is dropped, not before.
C14_ReusableUntilDropped ==
    /\ pc \in {"live", "panic"} => self = made
    /\ pc = "dropped" =>
          /\ SecretsZeroed(self)
          /\ self.length = made.length
    /\ (pc # "dropped" /\ self.kind = "Hkdf") => ~IsZeroed(self.ikm)
    /\ (pc # "dropped" /\ self.kind = "CShake") => ~IsZeroed(self.custom)

\* derive_key or finalize succeeded, another call followed, and the secrets
\* are still in the record.
C14_UsedTwiceAndIntact ==
    /\ pc = "live"
    /\ calls >= 2
    /\ op = "verify"
    /\ ret = OkBool(TRUE)
    /\ \E a \in hist.calls : a.op \in {"derive_key", "finalize"} /\ a.ret.tag = "Ok"
    /\ self = made
    /\ ~SecretsZeroed(self)

\* U(j) of block i: U(1) = HMAC(password, salt || BE32(i)),
\* U(j) = HMAC(password, U(j - 1)).
RECURSIVE Pbkdf2_U(_, _, _)
Pbkdf2_U(r, i, j) ==
    IF j = 1 THEN Hmac_finalize(r.password, r.salt \o BE32(i), r.hmac)
    ELSE Hmac_finalize(r.password, Pbkdf2_U(r, i, j - 1), r.hmac)

\* U(1) XOR ... XOR U(j) of block i.
RECURSIVE Pbkdf2_XorUpTo(_, _, _)
Pbkdf2_XorUpTo(r, i, j) ==
    IF j = 1 THEN Pbkdf2_U(r, i, 1)
    ELSE XorBytes(Pbkdf2_XorUpTo(r, i, j - 1), Pbkdf2_U(r, i, j))

\* T(1) || ... || T(n).
RECURSIVE Pbkdf2_T(_, _)
Pbkdf2_T(r, n) ==
    IF n = 0 THEN <<>> ELSE Pbkdf2_T(r, n - 1) \o Pbkdf2_XorUpTo(r, n, r.iterations)

CeilDiv(a, b) == (a + b - 1) \div b

\* C15: for every dklen >= 1, iterations >= 1 and hash variant, PBKDF2's
\* derive_key returns exactly dklen bytes: the first dklen bytes of
\* T(1) || ... || T(n), n = ceil(dklen / hLen), where T(i) is the XOR of the
\* chained HMAC outputs U(1) .. U(iterations) of block i.
C15_Pbkdf2Output ==
    (op = "derive_key" /\ made.kind = "Pbkdf2" /\ made.dklen >= 1 /\ made.iterations >= 1) =>
        /\ ret.tag = "Ok"
        /\ Len(ret.bytes) = made.dklen
        /\ Len(trace) = made.iterations * CeilDiv(made.dklen, output_size(made.hmac))
        /\ ret.bytes = SubSeq(Pbkdf2_T(made, CeilDiv(made.dklen, output_size(made.hmac))),
                              1, made.dklen)

C15_ThreeBlocksDerived ==
    /\ op = "derive_key"
    /\ made.kind = "Pbkdf2"
    /\ made.hmac = "SHA256"
    /\ made.dklen = 69
    /\ made.iterations = 3
    /\ ret.tag = "Ok"
    /\ Len(ret.bytes) = 69
    /\ Len(trace) = 9

\* Block i (from 1) of an output of length bytes cut into pieces of h bytes;
\* block 0 is empty.
OutputBlock(bytes, h, i) ==
    IF i = 0 THEN <<>>
    ELSE SubSeq(bytes, (i - 1) * h + 1, IF i * h < Len(bytes) THEN i * h ELSE Len(bytes))

\* Block i is HMAC(key = prk, message = block(i - 1) || info || byte(i)),
\* cut to the block's length.
IsExpandBlock(bytes, r, prk, i) ==
    OutputBlock(bytes, output_size(r.hmac), i) =
        Truncate(Hmac_finalize(prk,
                               OutputBlock(bytes, output_size(r.hmac), i - 1)
                                   \o r.info \o <<i>>,
                               r.hmac),
                 Len(OutputBlock(bytes, output_size(r.hmac), i)))

\* C16: for every accepted length expand returns the first length bytes of
\* T(1) || ... || T(n), n = ceil(length / hLen), T(0) empty and
\* T(i) = HMAC(key = prk, message = T(i-1) || info || byte(i)), with one HMAC
\* invocation per block.
C16_ExpandBlocks ==
    (op = "expand" /\ ValidHkdf(made)) =>
        /\ ret.tag = "Ok"
        /\ Len(ret.bytes) = made.length
        /\ Len(trace) = CeilDiv(made.length, output_size(made.hmac))
        /\ \A i \in 1..CeilDiv(made.length, output_size(made.hmac)) :
              IsExpandBlock(ret.bytes, made, arg[1], i)

C16_LastBlockCut ==
    /\ op = "expand"
    /\ made.hmac = "SHA256"
    /\ made.length = 8159
    /\ ret.tag = "Ok"
    /\ Len(trace) = 255
    /\ Len(OutputBlock(ret.bytes, 32, 255)) = 31
    /\ IsExpandBlock(ret.bytes, made, arg[1], 255)

\* C17: derive_key returns what expand returns for prk = extract(salt, ikm)
\* = HMAC(key = salt, message = ikm), an error of expand included: it equals
\* the composition, and it equals what the caller got from expand called with
\* the output of extract(salt, ikm) on the same record.
C17_DeriveKeyIsExpandOfExtract ==
    /\ (op = "derive_key" /\ made.kind = "Hkdf") =>
          ret = Hkdf_expand(made, Hmac_finalize(made.salt, made.ikm, made.hmac)).res
    /\ \A d \in hist.calls : \A x \in hist.calls :
          (/\ made.kind = "Hkdf"
           /\ d.op = "derive_key"
           /\ x.op = "expand"
           /\ x.arg = <<Hmac_finalize(made.salt, made.ikm, made.hmac)>>)
          => d.ret = x.ret

C17_ComposedByCaller ==
    /\ calls = 3
    /\ op = "derive_key"
    /\ ret.tag = "Ok"
    /\ \E e \in hist.calls : \E x \in hist.calls :
          /\ e.op = "extract"
          /\ e.arg = <<made.salt, made.ikm>>
          /\ x.op = "expand"
          /\ x.arg = <<e.ret.bytes>>
          /\ x.ret = ret

\* What precedes the padding: left_encode(rate), the encoded name, the
\* encoded custom.
CShakePrefix(r) ==
    left_encode(U64(CShake_rate(r))).bytes
        \o left_encode(U64(8 * Len(r.name))).bytes \o r.name
        \o left_encode(U64(8 * Len(r.custom))).bytes \o r.custom

\* The calls on the sponge, in order, with the number of bytes of each.
CShakeAbsorbLog(r, pad) ==
    << <<"update", Len(left_encode(U64(CShake_rate(r))).bytes)>>,
       <<"update", Len(left_encode(U64(8 * Len(r.name))).bytes)>>,
       <<"update", Len(r.name)>>,
       <<"update", Len(left_encode(U64(8 * Len(r.custom))).bytes)>>,
       <<"update", Len(r.custom)>>,
       <<"fill_block", pad>>,
       <<"update", Len(r.input)>>,
       <<"finalize", r.length>> >>

\* C18: on every successful finalize the sponge is new for the call and has
\* the variant's rate; it absorbs, in this order, left_encode(rate),
\* left_encode(8 * len(name)), name, left_encode(8 * len(custom)), custom,
\* zero bytes up to a multiple of the rate, then input, and nothing else;
\* then it is finalized and exactly length bytes are squeezed.  input starts
\* on a multiple of the rate.
C18_AbsorbOrder ==
    (op = "finalize" /\ ret.tag = "Ok") =>
        /\ sponge.rate = (IF made.keccak = "KECCAK256" THEN 168 ELSE 136)
        /\ \E pad \in 0..(sponge.rate - 1) :
              /\ (Len(CShakePrefix(made)) + pad) % sponge.rate = 0
              /\ sponge.log = CShakeAbsorbLog(made, pad)
              /\ sponge.absorbed = CShakePrefix(made) \o Zeros(pad) \o made.input
        /\ (Len(sponge.absorbed) - Len(made.input)) % sponge.rate = 0
        /\ Len(ret.bytes) = made.length

\* A second finalize on the same record, with a non-empty input.
C18_SecondFinalize ==
    /\ op = "finalize"
    /\ calls = 2
    /\ out.op = "finalize"
    /\ ret.tag = "Ok"
    /\ made.input = <<0, 1, 2, 3>>
    /\ made.name = <<78>>
    /\ made.custom = <<69, 109>>
    /\ made.keccak = "KECCAK256"
    /\ endian = "little"
    /\ Len(sponge.log) = 8
    /\ sponge.log[6] = <<"fill_block", 168 - 9>>
    /\ Len(sponge.absorbed) = 168 + 4

\* C19: for every accepted length the iteration count
\* n_iter = 1 + (length - 1) / hLen is computed from a length >= 1, equals
\* ceil(length / hLen) and the number of passes made, and lies in 1..255; the
\* counter byte of pass index is index itself, never 0, and no two passes
\* of one call have the same counter byte.
C19_IterationCount ==
    (op = "expand" /\ ret.tag = "Ok") =>
        /\ made.length - 1 >= 0
        /\ Hkdf_n_iter(made) = CeilDiv(made.length, output_size(made.hmac))
        /\ Len(trace) = Hkdf_n_iter(made)
        /\ Len(trace) \in 1..255
        /\ \A i \in 1..Len(trace) : Hkdf_counter(i) = i /\ Hkdf_counter(i) # 0
        /\ \A i \in 1..Len(trace) : \A j \in 1..Len(trace) :
              i # j => Hkdf_counter(i) # Hkdf_counter(j)

C19_LastCounterIs255 ==
    /\ op = "expand"
    /\ made.hmac = "SHA384"
    /\ made.length = 12240
    /\ ret.tag = "Ok"
    /\ Len(trace) = 255
    /\ Hkdf_counter(Len(trace)) = 255

\* C20: for every hash variant max_okmlen is 255 * output_size (8160, 12240
\* or 16320), and no call of expand, derive_key or verify reaches its panic
\* arm.
C20_PanicArmUnreachable ==
    made.kind = "Hkdf" =>
        /\ Hkdf_max_okmlen(made) = 255 * output_size(made.hmac)
        /\ Hkdf_max_okmlen(made) \in {8160, 12240, 16320}
        /\ \A i \in 1..Len(trace) : trace[i] # "max_okmlen_panic"
        /\ op \in {"expand", "derive_key"} => ret.tag # "Panic"
        /\ (op = "verify" /\ ret.tag = "Panic") => ~ValidHkdf(made)

C20_VerifiedWithSha384 ==
    /\ made.kind = "Hkdf"
    /\ made.hmac = "SHA384"
    /\ made.length = 58
    /\ op = "verify"
    /\ ret = OkBool(TRUE)
    /\ Hkdf_max_okmlen(made) = 12240

\* C21: dropping a CShake record clears only input and custom: name holds
\* the bytes the caller gave it, and length and the Keccak variant are as
\* constructed.
C21_DropLeavesName ==
    (pc = "dropped" /\ made.kind = "CShake") =>
        /\ self.name = made.name
        /\ self.length = made.length
        /\ self.keccak = made.keccak
        /\ self.kind = "CShake"
        /\ IsZeroed(self.input) /\ Len(self.input) = Len(made.input)
        /\ IsZeroed(self.custom) /\ Len(self.custom) = Len(made.custom)

C21_NameSurvivesDrop ==
    /\ pc = "dropped"
    /\ made.kind = "CShake"
    /\ op = "finalize"
    /\ ret.tag = "Ok"
    /\ self.name = <<78>>
    /\ made.input = <<0, 1, 2, 3>>
    /\ self.input = <<0, 0, 0, 0>>
    /\ made.custom = <<69, 109>>
    /\ self.custom = <<0, 0>>

====
